---------------------------- MODULE Spec2Model ----------------------------
(***************************************************************************)
(* Resume search / ATS scoring service.                                    *)
(*                                                                         *)
(* Two HTTP endpoints (POST /api/v1/search, POST /api/v1/ats-score) are    *)
(* handled one request at a time.  A request is followed step by step      *)
(* through its controller; every call to an external service (vector       *)
(* index, embedding API, LLM, document fetch) is one step whose outcome is *)
(* chosen by the environment, and is appended to the log `calls`.          *)
(*                                                                         *)
(* Python values are modelled by what the code does with them:             *)
(*   - a request field is [kind, len, val, toks] (a string of a length, an *)
(*     integer, JSON null, another non-string, or absent from the body);   *)
(*   - a URL is a sequence of tokens, each standing for a substring the    *)
(*     code searches for;                                                  *)
(*   - a text is [raw, stripped]: its length and its length after strip(); *)
(*   - an exception is [type, status, detail].                             *)
(***************************************************************************)
EXTENDS Integers, Sequences, FiniteSets, TLC

VARIABLES
    _pc,              \* resume_service._pc (Pinecone client handle)
    _index,           \* resume_service._index
    _openai_client,   \* resume_service._openai_client
    _extractor_client,\* resume_extractor._openai_client
    pc,               \* position of the request being handled
    req,              \* the request body
    calls,            \* external calls made for this request, in order
    resp,             \* the HTTP response of this request
    raised,           \* the exception that ended this request, if any
    matches,          \* results.matches of the vector query
    candidates,       \* search_candidates' list under construction
    backfill,         \* per match: what the metadata backfill did
    resume_text,      \* ats controller: extract_text_from_url's result
    llm_out,          \* ats scorer: what the LLM call produced
    ats_result,       \* ats scorer: what calculate_ats_score returned
    actual_url,       \* extractor: argument of the innermost active call
    depth,            \* extractor: recursive calls active above it
    ret               \* extractor: what the function called returned

vars == <<_pc, _index, _openai_client, _extractor_client, pc, req,
          calls, resp, raised, matches, candidates, backfill, resume_text,
          llm_out, ats_result, actual_url, depth, ret>>

\* the call of an extractor function followed on its own
frame == <<actual_url, depth, ret>>

globals == <<_pc, _index, _openai_client, _extractor_client>>

(***************************************************************************)
(* Bounds of the model.                                                    *)
(***************************************************************************)
MaxMatches == 2     \* longest result list the vector index returns
MaxRespLen == 4     \* longest LLM response text, in tokens
MaxUrlLen  == 4     \* longest enumerated URL, in tokens
MaxTextChunks == 3  \* longest text given to extract_skills, in pieces

(***************************************************************************)
(* Program constants.                                                      *)
(***************************************************************************)
MIN_JD_LEN    == 10
MIN_COUNT     == 1
MAX_COUNT     == 100
DEFAULT_COUNT == 10
MIN_TEXT_LEN  == 50

None == "None"

(***************************************************************************)
(* Python values.                                                          *)
(***************************************************************************)
\* a key absent from the request body
Missing == [kind |-> "missing", len |-> 0, val |-> 0, toks |-> <<>>]

\* JSON null
Null == [kind |-> "null", len |-> 0, val |-> 0, toks |-> <<>>]

\* a value that is neither a string nor an integer (a JSON object, say)
NonStr == [kind |-> "nonstr", len |-> 0, val |-> 0, toks |-> <<>>]

\* a string of n characters
StrVal(n) == [kind |-> "str", len |-> n, val |-> 0, toks |-> <<>>]

\* the integer n
IntVal(n) == [kind |-> "int", len |-> 0, val |-> n, toks |-> <<>>]

\* a URL string, as its tokens
UrlVal(toks) == [kind |-> "str", len |-> Len(toks), val |-> 0, toks |-> toks]

\* dict.get(key, default): the default only when the key is absent
Get(v, default) == IF v.kind = "missing" THEN default ELSE v

\* bool(v)
Truthy(v) ==
    CASE v.kind = "str"     -> v.len > 0
      [] v.kind = "int"     -> v.val # 0
      [] v.kind = "nonstr"  -> TRUE
      [] OTHER              -> FALSE

\* whether len(v) is defined (a TypeError otherwise)
HasLen(v) == v.kind = "str"

\* whether v < n, v > n are defined (a TypeError otherwise)
Ordered(v) == v.kind = "int"

(***************************************************************************)
(* Exceptions and responses.                                               *)
(***************************************************************************)
HTTPException(status, detail) ==
    [type |-> "HTTPException", status |-> status, detail |-> detail]

Exception(text) == [type |-> "Exception", status |-> 0, detail |-> text]

NoException == [type |-> "none", status |-> 0, detail |-> ""]

NoBody == [kind |-> "none"]
NoResp == [status |-> 0, detail |-> "", body |-> NoBody]

ErrorResp(e) == [status |-> e.status, detail |-> e.detail, body |-> NoBody]
OkResp(body) == [status |-> 200, detail |-> "", body |-> body]

(***************************************************************************)
(* Texts and document fetches (resume_extractor.py).                       *)
(***************************************************************************)
\* a str of `raw` characters of which `stripped` remain after strip()
Text(raw, stripped) == [raw |-> raw, stripped |-> stripped]

EmptyText == Text(0, 0)

\* what requests.get + the parser give for one document: an exception
\* (network error, HTTP error status, unparsable file) or the text
FetchError == [ok |-> FALSE, text |-> EmptyText]
Fetched(t) == [ok |-> TRUE, text |-> t]

\* the texts a parsed document may hold: empty, blank, one character short
\* of the ATS controller's minimum, exactly the minimum, above it; with or
\* without surrounding whitespace
DocTexts ==
    {Text(s + p, s) : s \in {0, 1, MIN_TEXT_LEN - 1, MIN_TEXT_LEN,
                              MIN_TEXT_LEN + 1}, p \in {0, 2}}

FetchOutcomes == {FetchError} \cup {Fetched(t) : t \in DocTexts}

\* the same for the search backfill, which only asks whether the text is
\* empty: no document, an empty one, a blank one, a resume
BackfillFetchOutcomes ==
    {FetchError, Fetched(EmptyText), Fetched(Text(2, 0)),
     Fetched(Text(MIN_TEXT_LEN, MIN_TEXT_LEN))}

\* read_pdf_from_url: the text, or "" on any exception
read_pdf_from_url(outcome) == IF outcome.ok THEN outcome.text ELSE EmptyText

\* read_docx_from_url: the text, or "" on any exception
read_docx_from_url(outcome) == IF outcome.ok THEN outcome.text ELSE EmptyText

(***************************************************************************)
(* URLs.  A token stands for a substring extract_text_from_url looks for:  *)
(*   "gview"    docs.google.com/gview?      "gdoc"   docs.google.com/document *)
(*   "url="     the url= parameter name     "&"      &<another parameter>  *)
(*   "%url="    url%3D, the same %-encoded                                 *)
(*   "/d/ID"    /d/<document id>            "/edit"  /edit or /view        *)
(*   "host"     https://example.com/r       "%host"  the same, %-encoded   *)
(*   ".pdf" ".docx" ".txt"  the trailing extension                         *)
(*   "fmt=pdf" "fmt=docx"   export?format=pdf, export?format=docx          *)
(***************************************************************************)
UrlTokens ==
    {"gview", "gdoc", "url=", "%url=", "&", "/d/ID", "/edit", "host",
     "%host", ".pdf", ".docx", ".txt", "fmt=pdf", "fmt=docx"}

Has(toks, t) == \E i \in 1..Len(toks) : toks[i] = t

\* A faulty unwrapping that has lost the URL decoding.
unquote_Identity(toks) == toks

\* urllib.parse.unquote, token by token
UnquoteToken(t) ==
    CASE t = "%host" -> "host"
      [] t = "%url=" -> "url="
      [] OTHER       -> t
unquote(toks) == [i \in 1..Len(toks) |-> UnquoteToken(toks[i])]

\* len(): the characters a token stands for
TokLen(t) ==
    CASE t = "gview"    -> 22    \* docs.google.com/gview?
      [] t = "gdoc"     -> 24    \* docs.google.com/document
      [] t = "url="     -> 4
      [] t = "%url="    -> 6     \* url%3D
      [] t = "&"        -> 1
      [] t = "/d/ID"    -> 5
      [] t = "/edit"    -> 5
      [] t = "host"     -> 21    \* https://example.com/r
      [] t = "%host"    -> 29    \* https%3A%2F%2Fexample.com%2Fr
      [] t = ".pdf"     -> 4
      [] t = ".docx"    -> 5
      [] t = ".txt"     -> 4
      [] t = "fmt=pdf"  -> 18    \* /export?format=pdf
      [] t = "fmt=docx" -> 19

RECURSIVE UrlLen(_)
UrlLen(toks) ==
    IF toks = <<>> THEN 0 ELSE TokLen(Head(toks)) + UrlLen(Tail(toks))

\* re.search(r'url=([^&]+)', url): group(1) of the leftmost match, or <<>>
\* when nothing matches (a match captures at least one character)
RECURSIVE TakeUntilAmp(_)
TakeUntilAmp(toks) ==
    IF toks = <<>> \/ Head(toks) = "&" THEN <<>>
    ELSE <<Head(toks)>> \o TakeUntilAmp(Tail(toks))

RECURSIVE UrlParam(_)
UrlParam(toks) ==
    IF toks = <<>> THEN <<>>
    ELSE IF Head(toks) = "url=" /\ TakeUntilAmp(Tail(toks)) # <<>>
         THEN TakeUntilAmp(Tail(toks))
         ELSE UrlParam(Tail(toks))

\* 'docs.google.com' in url
HasGoogleDocs(toks) == Has(toks, "gview") \/ Has(toks, "gdoc")

\* f'https://docs.google.com/document/d/{doc_id}/export?format=pdf'
export_url == <<"gdoc", "/d/ID", "fmt=pdf">>

IsDocx(toks) ==
    (toks # <<>> /\ toks[Len(toks)] = ".docx") \/ Has(toks, "fmt=docx")

IsPdf(toks) ==
    (toks # <<>> /\ toks[Len(toks)] = ".pdf") \/ Has(toks, "fmt=pdf")

\* text if text else ""
OrEmpty(t) == IF t.raw > 0 THEN t ELSE EmptyText

\* one document fetch: the reader called and the URL it was given
Fetch(reader, toks) == [reader |-> reader, url |-> toks]

\* Lines 245-248: the url is a gview wrapper whose url= parameter matched
IsGviewWrapper(toks) == Has(toks, "gview") /\ UrlParam(toks) # <<>>

\* Lines 257-279, what extract_text_from_url does with a str it does not
\* unwrap: the text returned, the documents fetched, in order, and whether
\* an exception left the function (none does: read_*_from_url and the
\* function itself catch them all).  fo[k] is the outcome of the k-th
\* fetch.
DispatchToks(toks, fo) ==
    LET export == HasGoogleDocs(toks) /\ Has(toks, "/edit")
                    /\ Has(toks, "/d/ID")
        first  == IF export THEN read_pdf_from_url(fo[1]) ELSE EmptyText
        k      == IF export THEN 2 ELSE 1
        pre    == IF export THEN <<Fetch("read_pdf_from_url", export_url)>>
                            ELSE <<>>
    IN  IF export /\ first.raw > 0
        THEN [text |-> first, fetched |-> pre, raised |-> FALSE]
        ELSE IF IsDocx(toks)
        THEN [text    |-> OrEmpty(read_docx_from_url(fo[k])),
              fetched |-> Append(pre, Fetch("read_docx_from_url", toks)),
              raised  |-> FALSE]
        ELSE IF IsPdf(toks)
        THEN [text    |-> OrEmpty(read_pdf_from_url(fo[k])),
              fetched |-> Append(pre, Fetch("read_pdf_from_url", toks)),
              raised  |-> FALSE]
        ELSE [text |-> EmptyText, fetched |-> pre, raised |-> FALSE]

\* extract_text_from_url on a str: lines 245-255 recurse on the unwrapped
\* url= parameter of a gview wrapper
RECURSIVE ExtractFromToks(_, _)
ExtractFromToks(toks, fo) ==
    IF IsGviewWrapper(toks)
    THEN ExtractFromToks(unquote(UrlParam(toks)), fo)
    ELSE DispatchToks(toks, fo)

\* extract_text_from_url(url): a url that is no str raises inside the try
\* block ('...' in url) and the handler returns ""
extract_text_from_url(url, fo) ==
    IF url.kind # "str"
    THEN [text |-> EmptyText, fetched |-> <<>>, raised |-> FALSE]
    ELSE ExtractFromToks(url.toks, fo)

(***************************************************************************)
(* extract_resume_info (resume_extractor.py): the LLM field extraction.    *)
(***************************************************************************)
InfoKeys ==
    {"name", "email", "contact_number", "linkedin_url", "skills",
     "position", "total_experience"}

EmptyInfo == [k \in InfoKeys |-> ""]

\* What the extraction LLM call does: raises, answers text json.loads
\* rejects, or answers a JSON object holding non-empty values for `keys`.
LlmRaise   == [kind |-> "raise", keys |-> {}]
LlmBadJson == [kind |-> "badjson", keys |-> {}]
LlmObject(keys) == [kind |-> "object", keys |-> keys]
\* a JSON text that is no object (a list, a number, null): result.get
\* raises AttributeError
LlmNonObject == [kind |-> "nonobject", keys |-> {}]

ExtractionOutcomes ==
    {LlmRaise, LlmBadJson, LlmObject({}), LlmObject({"skills", "email"}),
     LlmObject(InfoKeys)}

\* _get_openai_client: the handle afterwards, and whether it raised
\* (no handle yet and OPENAI_API_KEY unset)
_get_openai_client(client, key) ==
    IF client # None THEN [client |-> client, raised |-> FALSE, made |-> <<>>]
    ELSE IF ~key THEN [client |-> None, raised |-> TRUE, made |-> <<>>]
    ELSE [client |-> "OpenAI", raised |-> FALSE, made |-> <<"OpenAI()">>]

\* A faulty extract_resume_info without its except clause: a failure of the
\* client construction or of the LLM call leaves the function.
extract_resume_info_NoCatch(url, fo, client, key, llm) ==
    LET ex   == extract_text_from_url(url, fo)
        gets == [i \in 1..Len(ex.fetched) |-> "requests.get"]
        cl   == _get_openai_client(client, key)
    IN  IF ex.text.raw = 0
        THEN [info |-> EmptyInfo, failed |-> TRUE, raised |-> FALSE,
              calls |-> gets, client |-> client]
        ELSE IF cl.raised
        THEN [info |-> EmptyInfo, failed |-> TRUE, raised |-> TRUE,
              calls |-> gets, client |-> cl.client]
        ELSE [info |-> [k \in InfoKeys |->
                          IF k \in llm.keys THEN "llm" ELSE ""],
              failed |-> llm.kind # "object", raised |-> llm.kind # "object",
              calls |-> gets \o cl.made \o <<"chat.completions.create">>,
              client |-> cl.client]

\* A faulty extract_resume_info that copies the LLM's object as it is
\* instead of reading the seven fields with result.get(key, "").
extract_resume_info_NoDefaults(url, fo, client, key, llm) ==
    LET ex   == extract_text_from_url(url, fo)
        gets == [i \in 1..Len(ex.fetched) |-> "requests.get"]
        cl   == _get_openai_client(client, key)
    IN  IF ex.text.raw = 0
        THEN [info |-> EmptyInfo, failed |-> TRUE, raised |-> FALSE,
              calls |-> gets, client |-> client]
        ELSE IF cl.raised
        THEN [info |-> EmptyInfo, failed |-> TRUE, raised |-> FALSE,
              calls |-> gets, client |-> cl.client]
        ELSE IF llm.kind # "object"
        THEN [info |-> EmptyInfo, failed |-> TRUE, raised |-> FALSE,
              calls |-> gets \o cl.made \o <<"chat.completions.create">>,
              client |-> cl.client]
        ELSE [info |-> [k \in llm.keys |-> "llm"],
              failed |-> FALSE, raised |-> FALSE,
              calls |-> gets \o cl.made \o <<"chat.completions.create">>,
              client |-> cl.client]

\* extract_resume_info(url): the field map returned, whether a stage
\* failed, whether an exception left the function, the external calls
\* made and the client handle afterwards.  Every exception is caught and
\* answered with the all-empty map.
extract_resume_info(url, fo, client, key, llm) ==
    LET ex   == extract_text_from_url(url, fo)
        gets == [i \in 1..Len(ex.fetched) |-> "requests.get"]
        cl   == _get_openai_client(client, key)
    IN  IF ex.text.raw = 0
        THEN [info |-> EmptyInfo, failed |-> TRUE, raised |-> FALSE, calls |-> gets,
              client |-> client]
        ELSE IF cl.raised
        THEN [info |-> EmptyInfo, failed |-> TRUE, raised |-> FALSE, calls |-> gets,
              client |-> cl.client]
        ELSE IF llm.kind # "object"
        THEN [info |-> EmptyInfo, failed |-> TRUE, raised |-> FALSE,
              calls |-> gets \o cl.made \o <<"chat.completions.create">>,
              client |-> cl.client]
        ELSE [info |-> [k \in InfoKeys |->
                          IF k \in llm.keys THEN "llm" ELSE ""],
              failed |-> FALSE, raised |-> FALSE,
              calls |-> gets \o cl.made \o <<"chat.completions.create">>,
              client |-> cl.client]

(***************************************************************************)
(* The vector index (Pinecone), as search_candidates sees it.              *)
(***************************************************************************)
MetaKeys == {"skills", "linkedin_url", "email", "contact_number", "position"}

PdfUrl == UrlVal(<<"host", ".pdf">>)
TxtUrl == UrlVal(<<"host", ".txt">>)
DocUrl == UrlVal(<<"gdoc", "/d/ID", "/edit">>)
NoUrl  == UrlVal(<<>>)

\* One stored vector as a match: its id, similarity score, the url of its
\* metadata ("" when absent) and the metadata keys with a non-empty value.
Match(id, score, url, meta) ==
    [id |-> id, score |-> score, url |-> url, meta |-> meta]

\* The matches a query may return, by id.  Scores tie between ids 2 and 3.
StoredMatches ==
    {Match(1, 3, PdfUrl, {}),
     Match(2, 2, DocUrl, {"skills"}),
     Match(3, 2, NoUrl, {}),
     Match(4, 1, PdfUrl, MetaKeys),
     Match(5, 1, TxtUrl, {"email"})}

\* the sequences over S of length n at most
SeqsUpTo(S, n) == UNION {[1..k -> S] : k \in 0..n}

Min(a, b) == IF a < b THEN a ELSE b

(***************************************************************************)
(* extract_skills (resume_extractor.py): the keyword scan.  A string is    *)
(* the sequence of its characters.                                         *)
(***************************************************************************)
LowerCase ==
    <<"a", "b", "c", "d", "e", "f", "g", "h", "i", "j", "k", "l", "m", "n", "o", "p", "q", "r", "s", "t", "u", "v", "w", "x", "y", "z">>
UpperCase ==
    <<"A", "B", "C", "D", "E", "F", "G", "H", "I", "J", "K", "L", "M", "N", "O", "P", "Q", "R", "S", "T", "U", "V", "W", "X", "Y", "Z">>

\* str.upper() on one character: an ASCII letter to its capital, every
\* other character of the modelled texts to itself
UpperChar(c) ==
    IF \E i \in 1..26 : LowerCase[i] = c
    THEN UpperCase[CHOOSE i \in 1..26 : LowerCase[i] = c]
    ELSE c

\* str.upper()
upper(s) == [i \in 1..Len(s) |-> UpperChar(s[i])]

\* Lines 75-87: the fixed keyword list, in its order
common_skills ==
    <<
      <<"P", "y", "t", "h", "o", "n">>,
      <<"J", "a", "v", "a">>,
      <<"J", "a", "v", "a", "S", "c", "r", "i", "p", "t">>,
      <<"C", "+", "+">>,
      <<"C", "#">>,
      <<"R", "u", "b", "y">>,
      <<"P", "H", "P">>,
      <<"S", "w", "i", "f", "t">>,
      <<"K", "o", "t", "l", "i", "n">>,
      <<"G", "o">>,
      <<"R", "e", "a", "c", "t">>,
      <<"A", "n", "g", "u", "l", "a", "r">>,
      <<"V", "u", "e">>,
      <<"N", "o", "d", "e", ".", "j", "s">>,
      <<"E", "x", "p", "r", "e", "s", "s">>,
      <<"D", "j", "a", "n", "g", "o">>,
      <<"F", "l", "a", "s", "k">>,
      <<"F", "a", "s", "t", "A", "P", "I">>,
      <<"S", "p", "r", "i", "n", "g">>,
      <<"S", "Q", "L">>,
      <<"M", "y", "S", "Q", "L">>,
      <<"P", "o", "s", "t", "g", "r", "e", "S", "Q", "L">>,
      <<"M", "o", "n", "g", "o", "D", "B">>,
      <<"R", "e", "d", "i", "s">>,
      <<"O", "r", "a", "c", "l", "e">>,
      <<"N", "o", "S", "Q", "L">>,
      <<"A", "W", "S">>,
      <<"A", "z", "u", "r", "e">>,
      <<"G", "C", "P">>,
      <<"D", "o", "c", "k", "e", "r">>,
      <<"K", "u", "b", "e", "r", "n", "e", "t", "e", "s">>,
      <<"J", "e", "n", "k", "i", "n", "s">>,
      <<"C", "I", "/", "C", "D">>,
      <<"G", "i", "t">>,
      <<"G", "i", "t", "H", "u", "b">>,
      <<"G", "i", "t", "L", "a", "b">>,
      <<"B", "i", "t", "b", "u", "c", "k", "e", "t">>,
      <<"M", "a", "c", "h", "i", "n", "e", " ", "L", "e", "a", "r", "n", "i", "n", "g">>,
      <<"D", "e", "e", "p", " ", "L", "e", "a", "r", "n", "i", "n", "g">>,
      <<"A", "I">>,
      <<"N", "L", "P">>,
      <<"C", "o", "m", "p", "u", "t", "e", "r", " ", "V", "i", "s", "i", "o", "n">>,
      <<"T", "e", "n", "s", "o", "r", "F", "l", "o", "w">>,
      <<"P", "y", "T", "o", "r", "c", "h">>,
      <<"S", "c", "i", "k", "i", "t", "-", "l", "e", "a", "r", "n">>,
      <<"P", "a", "n", "d", "a", "s">>,
      <<"N", "u", "m", "P", "y">>,
      <<"R", "E", "S", "T", " ", "A", "P", "I">>,
      <<"G", "r", "a", "p", "h", "Q", "L">>,
      <<"M", "i", "c", "r", "o", "s", "e", "r", "v", "i", "c", "e", "s">>,
      <<"A", "g", "i", "l", "e">>,
      <<"S", "c", "r", "u", "m">>,
      <<"H", "T", "M", "L">>,
      <<"C", "S", "S">>,
      <<"B", "o", "o", "t", "s", "t", "r", "a", "p">>,
      <<"T", "a", "i", "l", "w", "i", "n", "d">>,
      <<"S", "A", "S", "S">>,
      <<"T", "y", "p", "e", "S", "c", "r", "i", "p", "t">>,
      <<"j", "Q", "u", "e", "r", "y">>,
      <<"R", "e", "d", "u", "x">>,
      <<"N", "e", "x", "t", ".", "j", "s">>,
      <<"L", "i", "n", "u", "x">>,
      <<"U", "n", "i", "x">>,
      <<"W", "i", "n", "d", "o", "w", "s">>,
      <<"m", "a", "c", "O", "S">>
    >>

\* Line 93: skill.upper(), for every entry of the list
common_skills_upper ==
    [n \in 1..Len(common_skills) |-> upper(common_skills[n])]

\* Python's `a in b` for two strings
In(a, b) ==
    \E i \in 1..(Len(b) - Len(a) + 1) :
        b[i] = a[1] /\ SubSeq(b, i, i + Len(a) - 1) = a

\* ', '.join(words)
RECURSIVE join(_)
join(words) ==
    IF words = <<>> THEN <<>>
    ELSE IF Len(words) = 1 THEN words[1]
    ELSE words[1] \o <<",", " ">> \o join(Tail(words))

\* A faulty extract_skills that compares the text as it is written
extract_skills_CaseSensitive(text) ==
    LET found_skills ==
            SelectSeq([n \in 1..Len(common_skills) |-> n],
                      LAMBDA n : In(common_skills[n], text))
    IN  join([i \in 1..Min(15, Len(found_skills)) |->
                 common_skills[found_skills[i]]])

\* extract_skills(text): lines 89-96
extract_skills(text) ==
    LET text_upper == upper(text)
        found_skills ==
            SelectSeq([n \in 1..Len(common_skills) |-> n],
                      LAMBDA n : In(common_skills_upper[n], text_upper))
    IN  join([i \in 1..Min(15, Len(found_skills)) |->
                 common_skills[found_skills[i]]])

\* index.query(top_k = k): at most k distinct stored vectors, most similar
\* first
QueryResults(k) ==
    {q \in SeqsUpTo(StoredMatches, Min(k, MaxMatches)) :
        /\ \A i, j \in 1..Len(q) : i < j => q[i].id # q[j].id
        /\ \A i \in 1..Len(q) - 1 : q[i].score >= q[i + 1].score}

(***************************************************************************)
(* ATS scorer (ats_scorer.py).                                             *)
(*                                                                         *)
(* The LLM's response text is a sequence of tokens:                        *)
(*   "{" "}"    a brace of its own                                         *)
(*   "both"     "overall_score": 80, "category_scores": {...}              *)
(*   "over"     "overall_score": 120, "category_scores": {...}, a          *)
(*              tech_stack_consistency score of 25 among them              *)
(*   "os"       "overall_score": 60                                        *)
(*   "rl"       "risk_level": "CRITICAL"                                   *)
(*   "ts"       "timestamp": "2024-01-01T00:00:00"                         *)
(*   "overall"  the word overall (or total, final), "score" the word score *)
(*   "n"        the digits 42,  "nl" a line break,  "w" any other words    *)
(* A member token is written on one line and carries the commas JSON needs.*)
(***************************************************************************)
MemberTokens == {"both", "over", "os", "rl", "ts"}
ProseTokens  == {"overall", "score", "n", "nl", "w"}
RespTokens   == {"{", "}"} \cup MemberTokens \cup ProseTokens

CategoryNames ==
    {"tech_stack_consistency", "linkedin_authenticity", "project_depth",
     "format_quality", "content_authenticity", "timeline_coherence",
     "education_validation"}

\* the caps the prompt documents for the category sub-scores
CategoryCaps ==
    [c \in CategoryNames |->
        CASE c = "tech_stack_consistency" -> 20
          [] c = "linkedin_authenticity"  -> 15
          [] c = "project_depth"          -> 20
          [] c = "format_quality"         -> 10
          [] c = "content_authenticity"   -> 15
          [] c = "timeline_coherence"     -> 10
          [] c = "education_validation"   -> 10]

\* the category_scores object of the "both" member
LlmCategoryScores ==
    [c \in CategoryNames |->
        CASE c = "tech_stack_consistency" -> 18
          [] c = "linkedin_authenticity"  -> 10
          [] c = "project_depth"          -> 17
          [] c = "format_quality"         -> 9
          [] c = "content_authenticity"   -> 13
          [] c = "timeline_coherence"     -> 7
          [] c = "education_validation"   -> 6]

\* the category_scores object of the "over" member
LlmOverCapScores ==
    [c \in CategoryNames |->
        IF c = "tech_stack_consistency" THEN 25 ELSE LlmCategoryScores[c]]

\* the keys a member token sets
MemberKeys(t) ==
    CASE t = "both" -> {"overall_score", "category_scores"}
      [] t = "over" -> {"overall_score", "category_scores"}
      [] t = "os"   -> {"overall_score"}
      [] t = "rl"   -> {"risk_level"}
      [] t = "ts"   -> {"timestamp"}
      [] OTHER      -> {}

\* the value a member token gives key k
MemberValue(t, k) ==
    CASE k = "category_scores" /\ t = "over" -> LlmOverCapScores
      [] k = "category_scores"            -> LlmCategoryScores
      [] k = "overall_score" /\ t = "both" -> 80
      [] k = "overall_score" /\ t = "over" -> 120
      [] k = "overall_score"              -> 60
      [] k = "risk_level"                 -> "CRITICAL"
      [] OTHER                            -> "2024-01-01T00:00:00"

\* response_text.find('{'): the first token holding a '{' (0 if none).
\* The category_scores value inside "both" and "over" opens and closes
\* braces too.
HasOpen(t)  == t \in {"{", "both", "over"}
HasClose(t) == t \in {"}", "both", "over"}

FirstOpen(text) ==
    IF \E i \in 1..Len(text) : HasOpen(text[i])
    THEN CHOOSE i \in 1..Len(text) :
            /\ HasOpen(text[i])
            /\ \A j \in 1..(i - 1) : ~HasOpen(text[j])
    ELSE 0

\* response_text.rfind('}'): the last token holding a '}' (0 if none)
LastClose(text) ==
    IF \E i \in 1..Len(text) : HasClose(text[i])
    THEN CHOOSE i \in 1..Len(text) :
            /\ HasClose(text[i])
            /\ \A j \in (i + 1)..Len(text) : ~HasClose(text[j])
    ELSE 0

\* json.loads(response_text[json_start:json_end]) yields an object made of
\* the members between the braces: the slice starts at a "{" token, ends
\* at a "}" token and holds member tokens and line breaks (JSON
\* whitespace) only.  (A slice that starts or ends inside a "both" member
\* is the bare category_scores object or no JSON at all; an empty slice is
\* no JSON.)
SliceIsObject(text) ==
    LET a == FirstOpen(text)
        b == LastClose(text)
    IN  /\ a > 0 /\ b > a
        /\ text[a] = "{" /\ text[b] = "}"
        /\ \A i \in (a + 1)..(b - 1) : text[i] \in MemberTokens \cup {"nl"}

SliceMembers(text) == SubSeq(text, FirstOpen(text) + 1, LastClose(text) - 1)

\* the last member that sets key k (json.loads keeps the last duplicate)
LastSetting(members, k) ==
    CHOOSE i \in 1..Len(members) :
        /\ k \in MemberKeys(members[i])
        /\ \A j \in (i + 1)..Len(members) : k \notin MemberKeys(members[j])

\* json.loads of an object with these members
json_loads(members) ==
    [k \in UNION {MemberKeys(members[i]) : i \in 1..Len(members)} |->
        MemberValue(members[LastSetting(members, k)], k)]

(***************************************************************************)
(* re.search(r'(?:overall|total|final).*?score.*?(\d+)', text, IGNORECASE) *)
(* reads the text as keywords, the word score, digit runs and line breaks  *)
(* ('.' matches no line break).  A digit run is its value; the rest is:    *)
(***************************************************************************)
KW == -1
SC == -2
NL == -3

Lex(t) ==
    CASE t = "overall" -> <<KW>>
      [] t = "score"   -> <<SC>>
      [] t = "n"       -> <<42>>
      [] t = "nl"      -> <<NL>>
      [] t = "both"    -> <<KW, SC, 80, SC, SC, 18>>
      [] t = "over"    -> <<KW, SC, 120, SC, SC, 25>>
      [] t = "os"      -> <<KW, SC, 60>>
      [] t = "ts"      -> <<2024>>
      [] OTHER         -> <<>>

RECURSIVE LexText(_)
LexText(text) ==
    IF text = <<>> THEN <<>> ELSE Lex(Head(text)) \o LexText(Tail(text))

\* the first index in from..Len(L) that holds x before the line ends, or 0
\* (digits: a digit run is wanted; otherwise the word score is)
RECURSIVE FirstOnLine(_, _, _)
FirstOnLine(L, from, digits) ==
    IF from > Len(L) \/ L[from] = NL THEN 0
    ELSE IF (digits /\ L[from] >= 0) \/ (~digits /\ L[from] = SC) THEN from
    ELSE FirstOnLine(L, from + 1, digits)

\* A faulty match for the pattern score.*?(\d+), which asks for no keyword
\* before the word score.
MatchAt_AnyScore(L, i) ==
    LET k == IF L[i] = SC THEN FirstOnLine(L, i + 1, TRUE) ELSE 0
    IN  IF k > 0 THEN L[k] ELSE -1

\* group(1) of a match that starts with the keyword at index i, or -1
MatchAt(L, i) ==
    LET j == FirstOnLine(L, i + 1, FALSE)
        k == IF j = 0 THEN 0 ELSE FirstOnLine(L, j + 1, TRUE)
    IN  IF L[i] = KW /\ j > 0 /\ k > 0 THEN L[k] ELSE -1

\* int(score_match.group(1)) of the leftmost match, or -1 without a match
RECURSIVE SearchFrom(_, _)
SearchFrom(L, i) ==
    IF i > Len(L) THEN -1
    ELSE IF MatchAt(L, i) >= 0 THEN MatchAt(L, i)
    ELSE SearchFrom(L, i + 1)

score_match(text) == SearchFrom(LexText(text), 1)

DEFAULT_SCORE == 75

PlaceholderScores ==
    [c \in CategoryNames |->
        CASE c = "tech_stack_consistency" -> 15
          [] c = "linkedin_authenticity"  -> 12
          [] c = "project_depth"          -> 15
          [] c = "format_quality"         -> 8
          [] c = "content_authenticity"   -> 11
          [] c = "timeline_coherence"     -> 8
          [] c = "education_validation"   -> 8]

HeuristicKeys ==
    {"overall_score", "category_scores", "summary", "recommendations",
     "risk_level", "confidence_score", "parsing_note"}

\* _create_structured_response_from_text
_create_structured_response_from_text(text) ==
    [k \in HeuristicKeys |->
        CASE k = "overall_score" ->
                IF score_match(text) >= 0 THEN score_match(text)
                ELSE DEFAULT_SCORE
          [] k = "category_scores"  -> PlaceholderScores
          [] k = "summary"          -> text
          [] k = "recommendations"  -> "Review detailed feedback"
          [] k = "risk_level"       -> "MEDIUM"
          [] k = "confidence_score" -> 70
          [] k = "parsing_note"     ->
                "Response was parsed from unstructured text"]

\* A faulty _parse_openai_response that keeps the two required keys of the
\* parsed object and drops the others.
_parse_openai_response_RequiredOnly(text) ==
    IF /\ SliceIsObject(text)
       /\ {"overall_score", "category_scores"}
             \subseteq DOMAIN json_loads(SliceMembers(text))
    THEN [k \in {"overall_score", "category_scores"} |->
             json_loads(SliceMembers(text))[k]]
    ELSE _create_structured_response_from_text(text)

\* _parse_openai_response
_parse_openai_response(text) ==
    IF /\ SliceIsObject(text)
       /\ {"overall_score", "category_scores"}
             \subseteq DOMAIN json_loads(SliceMembers(text))
    THEN json_loads(SliceMembers(text))
    ELSE _create_structured_response_from_text(text)

FallbackKeys ==
    {"overall_score", "category_scores", "summary", "recommendations",
     "risk_level", "confidence_score", "error", "timestamp"}

\* _create_fallback_response
_create_fallback_response(error_message) ==
    [k \in FallbackKeys |->
        CASE k = "overall_score"    -> 0
          [] k = "category_scores"  -> [c \in CategoryNames |-> 0]
          [] k = "summary"          ->
                "ATS scoring failed due to technical error: "
                    \o error_message
          [] k = "recommendations"  -> "Please try again"
          [] k = "risk_level"       -> "UNKNOWN"
          [] k = "confidence_score" -> 0
          [] k = "error"            -> error_message
          [] k = "timestamp"        -> "now"]

\* d[key] = value on a dict
SetKey(d, key, value) ==
    [k \in DOMAIN d \cup {key} |-> IF k = key THEN value ELSE d[k]]

\* What responses.create does: raises an exception with a message, or
\* returns a response whose output_text is `text`.
LlmRaised(msg) == [kind |-> "raise", error |-> msg, text |-> <<>>]
LlmText(text)  == [kind |-> "text", error |-> "", text |-> text]
NoLlm          == [kind |-> "none", error |-> "", text |-> <<>>]

LlmErrors == {"Connection error.", "Rate limit reached"}

NoResult == [kind |-> "none"]

\* no extractor function has returned
NoRet == [kind |-> "none"]

\* A faulty calculate_ats_score without its except clause: no result when
\* the LLM call raises.
calculate_ats_score_NoCatch(out) ==
    IF out.kind = "raise" THEN NoResult
    ELSE SetKey(_parse_openai_response(out.text), "timestamp", "now")

\* calculate_ats_score: lines 38-65
calculate_ats_score(out) ==
    IF out.kind = "raise" THEN _create_fallback_response(out.error)
    ELSE SetKey(_parse_openai_response(out.text), "timestamp", "now")

(***************************************************************************)
(* Search controller (resume_controller.py).                               *)
(***************************************************************************)
NoReq ==
    [endpoint |-> "none", JD |-> Missing, count |-> Missing,
     resume_url |-> Missing, job_description |-> Missing]

SearchReq(JD, count) ==
    [endpoint |-> "search", JD |-> JD, count |-> count,
     resume_url |-> Missing, job_description |-> Missing]

\* A faulty validation that has lost the upper bound of count.
SearchValidate_NoUpperBound(r) ==
    LET JD    == Get(r.JD, StrVal(0))
        count == Get(r.count, IntVal(DEFAULT_COUNT))
    IN  IF ~Truthy(JD)
        THEN HTTPException(400, "JD must be at least 10 characters")
        ELSE IF ~HasLen(JD)
        THEN Exception("object has no len()")
        ELSE IF JD.len < MIN_JD_LEN
        THEN HTTPException(400, "JD must be at least 10 characters")
        ELSE IF ~Ordered(count)
        THEN Exception("'<' not supported")
        ELSE IF count.val < MIN_COUNT
        THEN HTTPException(400, "count must be between 1 and 100")
        ELSE NoException

\* Lines 26-34: the exception the validation raises, if any.  len() of a
\* non-string and the comparison of a non-integer raise a TypeError.
SearchValidate(r) ==
    LET JD    == Get(r.JD, StrVal(0))
        count == Get(r.count, IntVal(DEFAULT_COUNT))
    IN  IF ~Truthy(JD)
        THEN HTTPException(400, "JD must be at least 10 characters")
        ELSE IF ~HasLen(JD)
        THEN Exception("object has no len()")
        ELSE IF JD.len < MIN_JD_LEN
        THEN HTTPException(400, "JD must be at least 10 characters")
        ELSE IF ~Ordered(count)
        THEN Exception("'<' not supported")
        ELSE IF count.val < MIN_COUNT \/ count.val > MAX_COUNT
        THEN HTTPException(400, "count must be between 1 and 100")
        ELSE NoException

\* A faulty handler that has lost its `except HTTPException: raise` clause.
SearchCatch_All500(e) ==
    ErrorResp(HTTPException(500, "Internal server error: " \o e.detail))

\* Lines 52-56: an HTTPException passes through, anything else becomes a
\* 500 whose detail embeds str(e)
SearchCatch(e) ==
    IF e.type = "HTTPException" THEN ErrorResp(e)
    ELSE ErrorResp(HTTPException(500, "Internal server error: " \o e.detail))

\* A faulty top_k: the query issued with the default count, whatever the
\* request asked for.
TopK_Default == DEFAULT_COUNT

\* request.get("count", 10), once validated
TopK == Get(req.count, IntVal(DEFAULT_COUNT)).val

\* A failure of the request being handled: the controller's handler turns
\* exception e into the response.
SearchFails(e) ==
    /\ raised' = e
    /\ resp' = SearchCatch(e)
    /\ pc' = "done"

\* POST /api/v1/search arrives: lines 24-36
SearchRequest(r) ==
    /\ pc = "idle"
    /\ UNCHANGED frame
    /\ req' = r
    /\ IF SearchValidate(r).type # "none"
       THEN SearchFails(SearchValidate(r))
       ELSE pc' = "init" /\ UNCHANGED <<resp, raised>>
    /\ UNCHANGED <<globals, calls, matches, candidates, backfill,
                   resume_text, llm_out, ats_result>>

(***************************************************************************)
(* search_candidates (resume_service.py).                                  *)
(***************************************************************************)
\* _initialize_connections.  pinecone_key, openai_key: whether os.getenv
\* finds the key; list: list_indexes() raises, or names / does not name the
\* index; create, handle: whether create_index() and Index() succeed.
_initialize_connections(pinecone_key, openai_key, list, create, handle) ==
    /\ pc = "init"
    /\ UNCHANGED frame
    /\ IF _index # None
       THEN /\ pc' = "embed"
            /\ UNCHANGED <<_pc, _index, _openai_client, calls, resp, raised>>
       ELSE IF ~pinecone_key
       THEN /\ SearchFails(Exception(
                   "PINECONE_API_KEY environment variable is required"))
            /\ UNCHANGED <<_pc, _index, _openai_client, calls>>
       ELSE IF ~openai_key
       THEN /\ SearchFails(Exception(
                   "OPENAI_API_KEY environment variable is required"))
            /\ UNCHANGED <<_pc, _index, _openai_client, calls>>
       ELSE
         /\ _pc' = "Pinecone"
         /\ _openai_client' = "OpenAI"
         /\ IF list = "raise"
            THEN /\ calls' = calls \o <<"Pinecone()", "OpenAI()",
                                         "list_indexes">>
                 /\ SearchFails(Exception("list_indexes failed"))
                 /\ _index' = _index
            ELSE IF list = "absent" /\ ~create
            THEN /\ calls' = calls \o <<"Pinecone()", "OpenAI()",
                                         "list_indexes", "create_index">>
                 /\ SearchFails(Exception("create_index failed"))
                 /\ _index' = _index
            ELSE
              LET made == <<"Pinecone()", "OpenAI()", "list_indexes">>
                          \o (IF list = "absent" THEN <<"create_index">>
                                                 ELSE <<>>)
                          \o <<"Index()">>
              IN  /\ calls' = calls \o made
                  /\ IF handle
                     THEN _index' = "Index" /\ pc' = "embed" /\ UNCHANGED <<resp, raised>>
                     ELSE /\ SearchFails(Exception("Index failed"))
                          /\ _index' = _index
    /\ UNCHANGED <<_extractor_client, req, matches, candidates, backfill,
                   resume_text, llm_out, ats_result>>

\* _create_embedding: the call raises (logged and re-raised, twice) or
\* returns the vector
_create_embedding(ok) ==
    /\ pc = "embed"
    /\ UNCHANGED frame
    /\ calls' = Append(calls, "embeddings.create")
    /\ IF ok THEN pc' = "query" /\ UNCHANGED <<resp, raised>>
             ELSE SearchFails(Exception("embedding failed"))
    /\ UNCHANGED <<globals, req, matches, candidates, backfill, resume_text,
                   llm_out, ats_result>>

\* A faulty query step that swallows the exception of the index and goes
\* on with no match.
IndexQuery_EmptyOnFailure(ok, result) ==
    /\ pc = "query"
    /\ UNCHANGED frame
    /\ calls' = Append(calls, "index.query")
    /\ matches' = IF ok THEN result ELSE <<>>
    /\ pc' = "matches"
    /\ UNCHANGED <<resp, raised>>
    /\ UNCHANGED <<globals, req, candidates, backfill, resume_text, llm_out,
                   ats_result>>

\* _index.query(vector, top_k=count, include_metadata=True)
IndexQuery(ok, result) ==
    /\ pc = "query"
    /\ UNCHANGED frame
    /\ calls' = Append(calls, "index.query")
    /\ IF ok THEN /\ matches' = result
                  /\ pc' = "matches"
                  /\ UNCHANGED <<resp, raised>>
             ELSE /\ SearchFails(Exception("query failed"))
                  /\ matches' = matches
    /\ UNCHANGED <<globals, req, candidates, backfill, resume_text, llm_out,
                   ats_result>>

\* Lines 145-167: the candidate built for match m, given what
\* extract_resume_info returned (info) when it was called
Candidate(m, info) ==
    [filename |-> m.id, score |-> m.score, url |-> m.url,
     fields |-> [k \in MetaKeys |->
                   IF k \in m.meta THEN "meta" ELSE info[k]]]

\* Line 145: url and not all([skills, linkedin_url, email, ...])
NeedsBackfill(m) == Truthy(m.url) /\ m.meta # MetaKeys

\* One iteration of the loop over results.matches (lines 127-167)
ProcessMatch(fo, key, llm) ==
    /\ pc = "matches"
    /\ UNCHANGED frame
    /\ Len(candidates) < Len(matches)
    /\ LET m == matches[Len(candidates) + 1]
           x == extract_resume_info(m.url, fo, _extractor_client, key, llm)
       IN  IF NeedsBackfill(m) /\ x.raised
           THEN \* lines 172-174: logged and re-raised to the controller
                /\ SearchFails(Exception("extraction failed"))
                /\ backfill' = Append(backfill, "raised")
                /\ calls' = calls \o x.calls
                /\ _extractor_client' = x.client
                /\ candidates' = candidates
           ELSE IF NeedsBackfill(m)
           THEN /\ candidates' = Append(candidates, Candidate(m, x.info))
                /\ backfill' = Append(backfill,
                                  IF x.failed THEN "failed" ELSE "filled")
                /\ calls' = calls \o x.calls
                /\ _extractor_client' = x.client
                /\ UNCHANGED <<pc, resp, raised>>
           ELSE /\ candidates' = Append(candidates, Candidate(m, EmptyInfo))
                /\ backfill' = Append(backfill, "skipped")
                /\ UNCHANGED <<calls, _extractor_client, pc, resp, raised>>
    /\ UNCHANGED <<_pc, _index, _openai_client, req, matches, resume_text,
                   llm_out, ats_result>>

\* The loop is over: search_candidates returns and the controller builds
\* the response envelope (resume_controller.py lines 41-50)
SearchRespond ==
    /\ pc = "matches"
    /\ UNCHANGED frame
    /\ Len(candidates) = Len(matches)
    /\ resp' = OkResp([kind |-> "search", success |-> TRUE,
                       candidates |-> candidates,
                       total_found |-> Len(candidates),
                       job_description |-> req.JD])
    /\ pc' = "done"
    /\ UNCHANGED <<globals, req, calls, raised, matches, candidates,
                   backfill, resume_text, llm_out, ats_result>>

\* The response is sent; the process waits for the next request.  Only the
\* module-level handles survive.
Finish ==
    /\ pc = "done"
    /\ UNCHANGED frame
    /\ pc' = "idle"
    /\ calls' = <<>> /\ resp' = NoResp /\ raised' = NoException
    /\ matches' = <<>>
    /\ candidates' = <<>> /\ backfill' = <<>> /\ resume_text' = EmptyText
    /\ llm_out' = NoLlm /\ ats_result' = NoResult
    /\ req' = NoReq
    /\ UNCHANGED globals

(***************************************************************************)
(* ATS controller (ats_controller.py).                                     *)
(***************************************************************************)
AtsReq(resume_url, job_description) ==
    [endpoint |-> "ats", JD |-> Missing, count |-> Missing,
     resume_url |-> resume_url, job_description |-> job_description]

\* A faulty validation whose length check is off by one.
AtsValidate_OffByOne(r) ==
    LET resume_url      == Get(r.resume_url, StrVal(0))
        job_description == Get(r.job_description, StrVal(0))
    IN  IF ~Truthy(resume_url)
        THEN HTTPException(400, "resume_url is required")
        ELSE IF ~Truthy(job_description)
        THEN HTTPException(400,
                 "job_description must be at least 10 characters")
        ELSE IF ~HasLen(job_description)
        THEN Exception("object has no len()")
        ELSE IF job_description.len < MIN_JD_LEN - 1
        THEN HTTPException(400,
                 "job_description must be at least 10 characters")
        ELSE NoException

\* Lines 27-35: the exception the validation raises, if any
AtsValidate(r) ==
    LET resume_url      == Get(r.resume_url, StrVal(0))
        job_description == Get(r.job_description, StrVal(0))
    IN  IF ~Truthy(resume_url)
        THEN HTTPException(400, "resume_url is required")
        ELSE IF ~Truthy(job_description)
        THEN HTTPException(400,
                 "job_description must be at least 10 characters")
        ELSE IF ~HasLen(job_description)
        THEN Exception("object has no len()")
        ELSE IF job_description.len < MIN_JD_LEN
        THEN HTTPException(400,
                 "job_description must be at least 10 characters")
        ELSE NoException

\* Lines 64-68: an HTTPException passes through, anything else becomes a
\* 500 whose detail embeds str(e)
AtsCatch(e) ==
    IF e.type = "HTTPException" THEN ErrorResp(e)
    ELSE ErrorResp(HTTPException(500, "Internal server error: " \o e.detail))

AtsFails(e) ==
    /\ raised' = e
    /\ resp' = AtsCatch(e)
    /\ pc' = "done"

\* POST /api/v1/ats-score arrives: lines 25-37
AtsRequest(r) ==
    /\ pc = "idle"
    /\ UNCHANGED frame
    /\ req' = r
    /\ IF AtsValidate(r).type # "none"
       THEN AtsFails(AtsValidate(r))
       ELSE pc' = "ats_extract" /\ UNCHANGED <<resp, raised>>
    /\ UNCHANGED <<globals, calls, matches, candidates, backfill,
                   resume_text, llm_out, ats_result>>

\* A faulty check that measures the text without strip().
Insufficient_NoStrip(text) == text.raw = 0 \/ text.raw < MIN_TEXT_LEN

\* Line 43: not resume_text or len(resume_text.strip()) < 50
Insufficient(text) == text.raw = 0 \/ text.stripped < MIN_TEXT_LEN

\* A faulty controller that scores whatever text the extraction returned.
AtsExtract_NoTextCheck(fo) ==
    /\ pc = "ats_extract"
    /\ UNCHANGED frame
    /\ LET x == extract_text_from_url(req.resume_url, fo)
       IN  /\ resume_text' = x.text
           /\ calls' = calls \o [i \in 1..Len(x.fetched) |-> "requests.get"]
           /\ pc' = "ats_scorer" /\ UNCHANGED <<resp, raised>>
    /\ UNCHANGED <<globals, req, matches, candidates, backfill, llm_out,
                   ats_result>>

\* Lines 39-47: extract_text_from_url and the check of its result
AtsExtract(fo) ==
    /\ pc = "ats_extract"
    /\ UNCHANGED frame
    /\ LET x == extract_text_from_url(req.resume_url, fo)
       IN  /\ resume_text' = x.text
           /\ calls' = calls \o [i \in 1..Len(x.fetched) |-> "requests.get"]
           /\ IF x.raised
              THEN AtsFails(Exception("extraction failed"))
              ELSE IF Insufficient(x.text)
              THEN AtsFails(HTTPException(400,
                       "Unable to extract sufficient text from resume URL"))
              ELSE pc' = "ats_scorer" /\ UNCHANGED <<resp, raised>>
    /\ UNCHANGED <<globals, req, matches, candidates, backfill, llm_out,
                   ats_result>>

\* Line 52: ATSScorer() builds an OpenAI client of its own; the constructor
\* raises when it finds no API key
ATSScorerInit(key) ==
    /\ pc = "ats_scorer"
    /\ UNCHANGED frame
    /\ IF key THEN /\ calls' = Append(calls, "OpenAI()")
                   /\ pc' = "ats_score"
                   /\ UNCHANGED <<resp, raised>>
              ELSE /\ AtsFails(Exception("The api_key client option must be set"))
                   /\ calls' = calls
    /\ UNCHANGED <<globals, req, matches, candidates, backfill, resume_text,
                   llm_out, ats_result>>

\* A faulty scoring step that reports a result carrying an error as a
\* failure of the request.
AtsScore_FailOnFallback(out) ==
    /\ pc = "ats_score"
    /\ UNCHANGED frame
    /\ llm_out' = out
    /\ calls' = Append(calls, "responses.create")
    /\ ats_result' = calculate_ats_score(out)
    /\ IF "error" \in DOMAIN calculate_ats_score(out)
       THEN AtsFails(Exception(out.error))
       ELSE /\ resp' = OkResp(SetKey(calculate_ats_score(out),
                                     "success", TRUE))
            /\ pc' = "done"
            /\ raised' = raised
    /\ UNCHANGED <<globals, req, matches, candidates, backfill, resume_text>>

\* Lines 53-62: calculate_ats_score (one LLM call, whose outcome is `out`),
\* then ats_result["success"] = True
AtsScore(out) ==
    /\ pc = "ats_score"
    /\ UNCHANGED frame
    /\ llm_out' = out
    /\ calls' = Append(calls, "responses.create")
    /\ ats_result' = calculate_ats_score(out)
    /\ resp' = OkResp(SetKey(calculate_ats_score(out), "success", TRUE))
    /\ pc' = "done"
    /\ UNCHANGED <<globals, req, raised, matches, candidates, backfill,
                   resume_text>>

(***************************************************************************)
(* The service: requests arrive one at a time.                             *)
(***************************************************************************)
\* the values a client may send for a job description
JDValues ==
    {Missing, Null, NonStr}
        \cup {StrVal(n) : n \in {0, MIN_JD_LEN - 1, MIN_JD_LEN}}

\* the values a client may send for count
CountValues ==
    {Missing, Null}
        \cup {IntVal(n) : n \in {MIN_COUNT - 2, MIN_COUNT - 1, MIN_COUNT,
                                  MIN_COUNT + 1, MAX_COUNT, MAX_COUNT + 1}}

\* the values a client may send for resume_url
UrlValues ==
    {Missing, Null, NonStr}
        \cup {UrlVal(u) : u \in {<<>>,
                                  <<"host", ".pdf">>,
                                  <<"host", ".docx">>,
                                  <<"host", ".txt">>,
                                  <<"gdoc", "/d/ID", "/edit">>,
                                  <<"gview", "url=", "%host", ".pdf", "&">>,
                                  <<"gview", "&">>}}

\* what the scoring LLM may do for a request of the service
ServiceLlmOutcomes ==
    {LlmRaised(e) : e \in LlmErrors}
        \cup {LlmText(t) : t \in {<<"{", "both", "}">>,
                                   <<"{", "both", "rl", "}">>,
                                   <<"w", "{", "os", "}">>,
                                   <<"overall", "score", "n">>,
                                   <<"w">>}}

Init ==
    /\ _pc = None /\ _index = None /\ _openai_client = None
    /\ _extractor_client = None
    /\ pc = "idle"
    /\ actual_url = <<>> /\ depth = 0 /\ ret = NoRet
    /\ req = NoReq
    /\ calls = <<>> /\ resp = NoResp /\ raised = NoException
    /\ matches = <<>>
    /\ candidates = <<>> /\ backfill = <<>> /\ resume_text = EmptyText
    /\ llm_out = NoLlm /\ ats_result = NoResult

Next ==
    \/ \E JD \in JDValues, count \in CountValues :
          SearchRequest(SearchReq(JD, count))
    \/ \E pk, ok \in BOOLEAN, list \in {"raise", "present", "absent"},
          create, handle \in BOOLEAN :
          _initialize_connections(pk, ok, list, create, handle)
    \/ \E ok \in BOOLEAN : _create_embedding(ok)
    \/ \E result \in QueryResults(TopK) : IndexQuery(TRUE, result)
    \/ IndexQuery(FALSE, <<>>)
    \/ \E fo \in [1..2 -> BackfillFetchOutcomes], key \in BOOLEAN,
          llm \in ExtractionOutcomes : ProcessMatch(fo, key, llm)
    \/ SearchRespond
    \/ \E url \in UrlValues, jd \in JDValues : AtsRequest(AtsReq(url, jd))
    \/ \E fo \in [1..2 -> FetchOutcomes] : AtsExtract(fo)
    \/ \E key \in BOOLEAN : ATSScorerInit(key)
    \/ \E out \in ServiceLlmOutcomes : AtsScore(out)
    \/ Finish

Spec == Init /\ [][Next]_vars

(***************************************************************************)
(* calculate_ats_score on its own: every response text of up to MaxRespLen *)
(* tokens, and every way the LLM call fails.                               *)
(***************************************************************************)
ScorerOutcomes ==
    {LlmRaised(e) : e \in LlmErrors}
        \cup {LlmText(t) : t \in SeqsUpTo(RespTokens, MaxRespLen)}

ScorerInit ==
    /\ _pc = None /\ _index = None /\ _openai_client = None
    /\ _extractor_client = None
    /\ pc = "scorer"
    /\ actual_url = <<>> /\ depth = 0 /\ ret = NoRet
    /\ req = NoReq
    /\ calls = <<>> /\ resp = NoResp /\ raised = NoException
    /\ matches = <<>>
    /\ candidates = <<>> /\ backfill = <<>> /\ resume_text = EmptyText
    /\ llm_out \in ScorerOutcomes /\ ats_result = NoResult

\* ats_scorer.calculate_ats_score(resume_text, job_description), the LLM
\* call doing what llm_out says
ScorerCall ==
    /\ pc = "scorer"
    /\ UNCHANGED frame
    /\ calls' = Append(calls, "responses.create")
    /\ ats_result' = calculate_ats_score(llm_out)
    /\ pc' = "scored"
    /\ UNCHANGED <<globals, req, resp, raised, matches, candidates, backfill,
                   resume_text, llm_out>>

ScorerNext == ScorerCall

ScorerSpec == ScorerInit /\ [][ScorerNext]_vars

(***************************************************************************)
(* extract_text_from_url on its own, one call at a time: every URL of up   *)
(* to MaxUrlLen tokens that wrap, nest and encode, and the URLs of the     *)
(* service.                                                                *)
(***************************************************************************)
WrapTokens ==
    {"gview", "url=", "%url=", "&", "host", "%host", ".pdf", ".docx"}

ExtractUrls ==
    SeqsUpTo(WrapTokens, MaxUrlLen)
        \cup {u.toks : u \in {v \in UrlValues : v.kind = "str"}}
        \cup {<<"gview", "url=", "gdoc", "/d/ID", "/edit">>,
              <<"gview", "url=", "%host", ".docx", "&">>,
              <<"gview", "url=", "gview", "url=", "host", ".pdf">>,
              <<"gview", "url=", "gview", "url=", "gview", "url=", "host",
                ".pdf">>}

ExtractInit ==
    /\ _pc = None /\ _index = None /\ _openai_client = None
    /\ _extractor_client = None
    /\ pc = "extract"
    /\ req \in {AtsReq(UrlVal(u), Missing) : u \in ExtractUrls}
    /\ actual_url = req.resume_url.toks /\ depth = 0 /\ ret = NoRet
    /\ calls = <<>> /\ resp = NoResp /\ raised = NoException
    /\ matches = <<>>
    /\ candidates = <<>> /\ backfill = <<>> /\ resume_text = EmptyText
    /\ llm_out = NoLlm /\ ats_result = NoResult

\* A faulty unwrapping that recurses on the url it was given.
GviewUnwrap_SameUrl ==
    /\ pc = "extract"
    /\ IsGviewWrapper(actual_url)
    /\ actual_url' = actual_url
    /\ depth' = depth + 1
    /\ UNCHANGED <<globals, pc, req, calls, resp, raised, matches,
                   candidates, backfill, resume_text, llm_out, ats_result,
                   ret>>

\* Lines 245-255: return extract_text_from_url(actual_url)
GviewUnwrap ==
    /\ pc = "extract"
    /\ IsGviewWrapper(actual_url)
    /\ actual_url' = unquote(UrlParam(actual_url))
    /\ depth' = depth + 1
    /\ UNCHANGED <<globals, pc, req, calls, resp, raised, matches,
                   candidates, backfill, resume_text, llm_out, ats_result,
                   ret>>

\* Lines 257-283: the innermost call fetches and returns, and so does every
\* call above it
ExtractDispatch(fo) ==
    /\ pc = "extract"
    /\ ~IsGviewWrapper(actual_url)
    /\ ret' = DispatchToks(actual_url, fo)
    /\ resume_text' = DispatchToks(actual_url, fo).text
    /\ pc' = "extracted"
    /\ UNCHANGED <<globals, req, calls, resp, raised, matches, candidates,
                   backfill, llm_out, ats_result, actual_url, depth>>

ExtractNext ==
    \/ GviewUnwrap
    \/ \E fo \in [1..2 -> BackfillFetchOutcomes] : ExtractDispatch(fo)

ExtractSpec == ExtractInit /\ [][ExtractNext]_vars

\* a call that can take a step does
ExtractFairSpec == ExtractSpec /\ WF_vars(ExtractNext)

(***************************************************************************)
(* extract_resume_info on its own: every URL value, every outcome of the   *)
(* document fetch and parse, the client handle set or not, the API key set *)
(* or not, and every outcome of the LLM call and of json.loads.            *)
(***************************************************************************)
\* the LLM outcomes of the service, an answer that is no JSON object, and
\* an object with a key the function does not read
InfoOutcomes ==
    ExtractionOutcomes
        \cup {LlmNonObject, LlmObject({"name", "summary"})}

InfoInit ==
    /\ _pc = None /\ _index = None /\ _openai_client = None
    /\ _extractor_client \in {None, "OpenAI"}
    /\ pc = "info"
    /\ actual_url = <<>> /\ depth = 0 /\ ret = NoRet
    /\ req \in {AtsReq(u, Missing) : u \in UrlValues}
    /\ calls = <<>> /\ resp = NoResp /\ raised = NoException
    /\ matches = <<>>
    /\ candidates = <<>> /\ backfill = <<>> /\ resume_text = EmptyText
    /\ llm_out = NoLlm /\ ats_result = NoResult

\* extract_resume_info(url), the fetches doing what fo says, OPENAI_API_KEY
\* set or not, the LLM call doing what llm says
ExtractInfoCall(fo, key, llm) ==
    /\ pc = "info"
    /\ LET x == extract_resume_info(req.resume_url, fo, _extractor_client,
                                    key, llm)
       IN  /\ ret' = [kind |-> "info", fo |-> fo, key |-> key, llm |-> llm,
                      client |-> _extractor_client, info |-> x.info,
                      raised |-> x.raised]
           /\ calls' = x.calls
           /\ _extractor_client' = x.client
    /\ pc' = "info_done"
    /\ UNCHANGED <<_pc, _index, _openai_client, req, resp, raised, matches,
                   candidates, backfill, resume_text, llm_out, ats_result,
                   actual_url, depth>>

InfoNext ==
    \E fo \in [1..2 -> BackfillFetchOutcomes], key \in BOOLEAN,
       llm \in InfoOutcomes : ExtractInfoCall(fo, key, llm)

InfoSpec == InfoInit /\ [][InfoNext]_vars

(***************************************************************************)
(* extract_skills on its own: every text of up to MaxTextChunks pieces,    *)
(* the pieces naming skills in another order and another case than the     *)
(* list, inside longer words, and more than fifteen of them.               *)
(***************************************************************************)
TextChunks ==
    {
      <<"P", "y", "t", "h", "o", "n", ",", " ", "D", "o", "c", "k", "e", "r", ",", " ", "K", "u", "b", "e", "r", "n", "e", "t", "e", "s">>,
      <<"k", "u", "b", "e", "r", "n", "e", "t", "e", "s", " ", "d", "o", "c", "k", "e", "r", " ", "P", "Y", "T", "H", "O", "N", " ">>,
      <<"J", "a", "v", "a", "S", "c", "r", "i", "p", "t", " ", "M", "y", "S", "Q", "L", " ">>,
      <<"C", "#", " ", "P", "H", "P", " ", "G", "o", " ", "V", "u", "e", " ", "A", "W", "S", " ", "G", "C", "P", " ", "A", "I", " ", "N", "L", "P", " ", "C", "S", "S", " ", "S", "A", "S", "S", " ", "G", "i", "t", " ">>,
      <<"m", "a", "i", "n", "t", "a", "i", "n", " ">>,
      <<"x", "y", "z", " ">>
    }

RECURSIVE Flatten(_)
Flatten(ss) == IF ss = <<>> THEN <<>> ELSE ss[1] \o Flatten(Tail(ss))

SkillTexts == {Flatten(ss) : ss \in SeqsUpTo(TextChunks, MaxTextChunks)}

SkillsInit ==
    /\ _pc = None /\ _index = None /\ _openai_client = None
    /\ _extractor_client = None
    /\ pc = "skills"
    /\ actual_url = <<>> /\ depth = 0
    /\ ret \in {[kind |-> "text", text |-> t, skills |-> <<>>] :
                  t \in SkillTexts}
    /\ req = NoReq
    /\ calls = <<>> /\ resp = NoResp /\ raised = NoException
    /\ matches = <<>>
    /\ candidates = <<>> /\ backfill = <<>> /\ resume_text = EmptyText
    /\ llm_out = NoLlm /\ ats_result = NoResult

\* extract_skills(text)
ExtractSkillsCall ==
    /\ pc = "skills"
    /\ ret' = [kind |-> "skills", text |-> ret.text,
               skills |-> extract_skills(ret.text)]
    /\ pc' = "skills_done"
    /\ UNCHANGED <<globals, req, calls, resp, raised, matches, candidates,
                   backfill, resume_text, llm_out, ats_result, actual_url,
                   depth>>

SkillsNext == ExtractSkillsCall

SkillsSpec == SkillsInit /\ [][SkillsNext]_vars

(***************************************************************************)
(* Properties.                                                             *)
(***************************************************************************)
\* a job description that is missing, empty or shorter than 10 characters
ShortJD(v) ==
    v.kind \in {"missing", "null"} \/ (v.kind = "str" /\ v.len < 10)

\* a job description of at least 10 characters
LongJD(v) == v.kind = "str" /\ v.len >= 10

\* the top_k a validated search request asks for
RequestedCount == IF req.count.kind = "missing" THEN 10 ELSE req.count.val

\* C1: a search request with a job description of at least 10 characters
\* and an integer count outside [1,100] is answered 400 at once, and no
\* external call (connection initialisation, embedding, query, document
\* fetch) is made for it.
C1_BadCountRejectedWithoutCalls ==
    (/\ req.endpoint = "search"
     /\ LongJD(req.JD)
     /\ req.count.kind = "int"
     /\ (req.count.val < 1 \/ req.count.val > 100))
    => (pc = "done" /\ resp.status = 400 /\ calls = <<>>)

C1_Witness ==
    /\ req.endpoint = "search" /\ req.JD = StrVal(10)
    /\ req.count = IntVal(101)
    /\ pc = "done" /\ resp.status = 400 /\ calls = <<>>

\* C2: a request whose job description is missing, empty or shorter than
\* 10 characters is answered 400, on the search endpoint whatever the
\* count and on the ATS endpoint whatever the resume_url.
C2_ShortJDRejected ==
    /\ (req.endpoint = "search" /\ ShortJD(req.JD))
          => (pc = "done" /\ resp.status = 400)
    /\ (req.endpoint = "ats" /\ ShortJD(req.job_description))
          => (pc = "done" /\ resp.status = 400)

C2_Witness ==
    /\ req.endpoint = "ats"
    /\ req.job_description = StrVal(9)
    /\ req.resume_url = UrlVal(<<"host", ".pdf">>)
    /\ pc = "done" /\ resp.status = 400

\* C3: an ATS request that passed validation and whose extracted text is
\* empty or shorter than 50 characters after strip() is answered 400, not
\* 500; that is the case of a URL with an unsupported extension and of a
\* resume_url that is no string.
C3_InsufficientTextIs400 ==
    (/\ req.endpoint = "ats"
     /\ pc \notin {"idle", "ats_extract"}
     /\ Truthy(req.resume_url)
     /\ LongJD(req.job_description))
    => /\ (resume_text.raw = 0 \/ resume_text.stripped < 50)
            => (pc = "done" /\ resp.status = 400)
       /\ req.resume_url \in {UrlVal(<<"host", ".txt">>), NonStr}
            => (pc = "done" /\ resp.status = 400 /\ calls = <<>>)

C3_Witness ==
    /\ req.endpoint = "ats"
    /\ req.resume_url = UrlVal(<<"host", ".pdf">>)
    /\ resume_text = Text(51, 49)
    /\ calls = <<"requests.get">>
    /\ pc = "done" /\ resp.status = 400

\* text[a..b] is a JSON object, written "{" members "}" over one or more
\* lines, that has both overall_score and category_scores
IsBothObject(text, a, b) ==
    /\ a < b /\ text[a] = "{" /\ text[b] = "}"
    /\ \A i \in (a + 1)..(b - 1) :
          text[i] \in {"both", "over", "os", "rl", "ts", "nl"}
    /\ \E i \in (a + 1)..(b - 1) : text[i] \in {"both", "over"}

\* the result is object obj with every key and value unchanged, plus a
\* timestamp
UnchangedPlusTimestamp(obj) ==
    /\ DOMAIN ats_result = DOMAIN obj \cup {"timestamp"}
    /\ \A k \in DOMAIN obj : ats_result[k] = obj[k]

IsBraceSlice(text, a, b) ==
    /\ \A j \in 1..(a - 1) : text[j] \notin {"{", "both", "over"}
    /\ \A j \in (b + 1)..Len(text) : text[j] \notin {"}", "both", "over"}

HoldsBothObject(text) ==
    \E a, b \in 1..Len(text) : IsBothObject(text, a, b)

\* the text from the first '{' to the last '}' of the response is a JSON
\* object with overall_score and category_scores
SliceIsBothObject(text) ==
    \E a, b \in 1..Len(text) :
        IsBothObject(text, a, b) /\ IsBraceSlice(text, a, b)

\* the numbers N of the occurrences of "score: N" in the text: a digit run
\* that directly follows the word score
ScorePatternNumbers(text) ==
    LET L == LexText(text)
    IN  {L[i + 1] : i \in {j \in 1..(Len(L) - 1) : L[j] = SC /\ L[j + 1] >= 0}}

\* the result is the heuristic reconstruction but for its overall_score
HeuristicShape ==
    /\ "parsing_note" \in DOMAIN ats_result
    /\ ats_result["category_scores"] = PlaceholderScores

\* C5 as claimed: when the response is not valid JSON or is JSON without
\* overall_score or category_scores, the result has the parsing note and
\* the fixed placeholder sub-scores, and its overall_score is the number of
\* a "score: N" pattern of the text, or 75 when the text has none.
C5_Original ==
    (pc = "scored" /\ llm_out.kind = "text"
        /\ ~HoldsBothObject(llm_out.text))
    => /\ HeuristicShape
       /\ IF ScorePatternNumbers(llm_out.text) = {}
          THEN ats_result["overall_score"] = 75
          ELSE ats_result["overall_score"]
                   \in ScorePatternNumbers(llm_out.text)

\* L[i..k] lies on one line
OneLine(L, i, k) == \A m \in i..k : L[m] # NL

\* the <<i, j, k>> at which the pattern overall|total|final ... score ...
\* digits matches on one line
PatternHits(L) ==
    {h \in UNION {UNION {{<<i, j, k>> :
                             k \in {x \in (j + 1)..Len(L) : L[x] >= 0}} :
                         j \in {x \in (i + 1)..Len(L) : L[x] = SC}} :
                  i \in {x \in 1..Len(L) : L[x] = KW}} :
        OneLine(L, h[1], h[3])}

\* the number the pattern reports: of the hits with the leftmost keyword,
\* the one whose digits come first
ReportedScore(L) ==
    LET H  == PatternHits(L)
        i0 == CHOOSE i \in {h[1] : h \in H} : \A h \in H : i <= h[1]
        K  == {h[3] : h \in {g \in H : g[1] = i0}}
        k0 == CHOOSE k \in K : \A x \in K : k <= x
    IN  L[k0]

\* C5 as amended: when the text from the first '{' to the last '}' of the
\* response is no JSON object with overall_score and category_scores, the
\* result has the parsing note and the fixed placeholder sub-scores
\* 15, 12, 15, 8, 11, 8, 8, and its overall_score is the first number that
\* follows, on one line, the word score after the leftmost of the words
\* overall, total, final that has such a continuation, or 75 when no word
\* has one.
C5_HeuristicReconstruction ==
    (pc = "scored" /\ llm_out.kind = "text"
        /\ ~SliceIsBothObject(llm_out.text))
    => /\ HeuristicShape
       /\ \A c \in CategoryNames :
             ats_result["category_scores"][c] \in {15, 12, 8, 11}
       /\ IF PatternHits(LexText(llm_out.text)) = {}
          THEN ats_result["overall_score"] = 75
          ELSE ats_result["overall_score"]
                   = ReportedScore(LexText(llm_out.text))

C5_Witness ==
    /\ pc = "scored"
    /\ llm_out = LlmText(<<"{", "overall", "score", "n">>)
    /\ "parsing_note" \in DOMAIN ats_result
    /\ ats_result["overall_score"] = 42
    /\ ats_result["category_scores"]["project_depth"] = 15

\* C6: when the LLM call raises, calculate_ats_score returns a result (it
\* raises nothing and the result is never missing) whose overall_score is
\* 0, whose seven category sub-scores are 0, whose risk_level is UNKNOWN
\* and whose error field is the text of the exception.
C6_LlmFailureGivesZeroFallback ==
    (pc = "scored" /\ llm_out.kind = "raise")
    => /\ ats_result # NoResult
       /\ ats_result["overall_score"] = 0
       /\ \A c \in CategoryNames : ats_result["category_scores"][c] = 0
       /\ ats_result["risk_level"] = "UNKNOWN"
       /\ ats_result["error"] = llm_out.error

C6_Witness ==
    /\ pc = "scored"
    /\ llm_out = LlmRaised("Rate limit reached")
    /\ ats_result # NoResult
    /\ ats_result["error"] = "Rate limit reached"
    /\ ats_result["risk_level"] = "UNKNOWN"

\* C7: a successful search returns one candidate per match the index query
\* returned, in the order of the matches (most similar first), so no more
\* than count of them, and total_found is the length of the list.
C7_CandidatesMirrorMatches ==
    (pc = "done" /\ req.endpoint = "search" /\ resp.status = 200)
    => LET cs == resp.body.candidates
       IN  /\ Len(cs) = Len(matches)
           /\ \A i \in 1..Len(cs) :
                 /\ cs[i].filename = matches[i].id
                 /\ cs[i].score = matches[i].score
                 /\ cs[i].url = matches[i].url
           /\ \A i, j \in 1..Len(cs) : i < j => cs[i].score >= cs[j].score
           /\ Len(cs) <= RequestedCount
           /\ resp.body.total_found = Len(cs)

C7_Witness ==
    /\ pc = "done" /\ req.endpoint = "search" /\ resp.status = 200
    /\ req.count = IntVal(2)
    /\ Len(resp.body.candidates) = 2
    /\ resp.body.candidates[1].filename = 1
    /\ resp.body.candidates[2].filename = 5
    /\ resp.body.total_found = 2

\* C8: a failed metadata backfill never aborts the search: no exception
\* leaves the backfill, the candidate is kept with the fields its metadata
\* lacks left empty, and the search that ran a backfill answers 200 with
\* one candidate per match.
C8_BackfillFailureNeverAborts ==
    /\ \A i \in 1..Len(backfill) : backfill[i] # "raised"
    /\ Len(backfill) = Len(candidates)
    /\ \A i \in 1..Len(backfill) :
          backfill[i] = "failed"
          => /\ candidates[i].filename = matches[i].id
             /\ \A k \in MetaKeys :
                   candidates[i].fields[k]
                      = IF k \in matches[i].meta THEN "meta" ELSE ""
    /\ (pc = "done" /\ backfill # <<>>)
          => /\ resp.status = 200
             /\ resp.body.candidates = candidates
             /\ Len(candidates) = Len(matches)

C8_Witness ==
    /\ pc = "done" /\ resp.status = 200
    /\ backfill = <<"failed", "filled">>
    /\ "chat.completions.create" \in {calls[i] : i \in 1..Len(calls)}
    /\ Len(resp.body.candidates) = 2
    /\ resp.body.candidates[1].fields["email"] = ""
    /\ resp.body.candidates[2].fields["email"] = "llm"

\* C9: in both controllers an HTTPException of the validation reaches the
\* client with its 400 status and its detail, and any other exception of
\* the processing is answered 500 with the text of the exception in the
\* detail.
C9_ErrorMapping ==
    pc = "done"
    => /\ raised.type = "HTTPException"
            => /\ raised.status = 400
               /\ resp.status = 400
               /\ resp.detail = raised.detail
       /\ raised.type = "Exception"
            => /\ resp.status = 500
               /\ resp.detail = "Internal server error: " \o raised.detail
       /\ raised.type = "none" => resp.status = 200

C9_Witness ==
    /\ pc = "done" /\ req.endpoint = "search"
    /\ raised = Exception("embedding failed")
    /\ resp.status = 500
    /\ resp.detail = "Internal server error: embedding failed"

\* C10 as claimed: every result calculate_ats_score returns has a
\* risk_level, which is one of LOW, MEDIUM, HIGH, UNKNOWN.
C10_RiskLevelEnum ==
    pc = "scored"
    => /\ "risk_level" \in DOMAIN ats_result
       /\ ats_result["risk_level"] \in {"LOW", "MEDIUM", "HIGH", "UNKNOWN"}

\* C11 as claimed: every result calculate_ats_score returns keeps each
\* category sub-score within the cap documented for it (20, 15, 20, 10, 15,
\* 10, 10), on every path.
C11_SubScoresWithinCaps ==
    pc = "scored"
    => \A c \in CategoryNames :
          ats_result["category_scores"][c] <= CategoryCaps[c]

\* C12 as claimed: the overall_score of every result calculate_ats_score
\* returns lies in 0..100.
C12_OverallScoreInRange ==
    pc = "scored"
    => (ats_result["overall_score"] >= 0 /\ ats_result["overall_score"] <= 100)

\* the request ends with an error response and no success body
EndsInError ==
    pc' = "done" /\ resp'.status >= 400 /\ resp'.body = NoBody

\* the step is an iteration of the search loop in which the extraction LLM
\* call is made and raises
ExtractionLlmRaises(fo, key, llm) ==
    /\ pc = "matches"
    /\ llm.kind = "raise"
    /\ Len(candidates) < Len(matches)
    /\ NeedsBackfill(matches[Len(candidates) + 1])
    /\ calls' # calls
    /\ calls'[Len(calls')] = "chat.completions.create"
    /\ ProcessMatch(fo, key, llm)

\* the step is the scoring LLM call, which raises
ScoringLlmRaises(out) == out.kind = "raise" /\ AtsScore(out)

\* C13 as claimed: a step in which the embedding call, the vector-index
\* query or an LLM call raises ends the request with an error response and
\* no success body.
C13_Original ==
    [][/\ _create_embedding(FALSE) => EndsInError
       /\ IndexQuery(FALSE, <<>>) => EndsInError
       /\ \A out \in ServiceLlmOutcomes : ScoringLlmRaises(out) => EndsInError
       /\ \A fo \in [1..2 -> BackfillFetchOutcomes], key \in BOOLEAN,
             llm \in ExtractionOutcomes :
             ExtractionLlmRaises(fo, key, llm) => EndsInError]_vars

\* C13 as amended: a step in which the embedding call or the vector-index
\* query raises ends the request with a 500 and no success body; a step in
\* which the scoring LLM call raises ends the request with a 200 whose body
\* is the all-zero fallback with success = true; a step in which the
\* extraction LLM call raises appends the candidate and leaves the search
\* going, with no response yet.
C13_ExternalFailureOutcome ==
    [][/\ _create_embedding(FALSE) => (EndsInError /\ resp'.status = 500)
       /\ IndexQuery(FALSE, <<>>) => (EndsInError /\ resp'.status = 500)
       /\ \A out \in ServiceLlmOutcomes :
             ScoringLlmRaises(out)
             => /\ pc' = "done" /\ resp'.status = 200
                /\ resp'.body["success"] = TRUE
                /\ resp'.body["overall_score"] = 0
                /\ resp'.body["error"] = out.error
       /\ \A fo \in [1..2 -> BackfillFetchOutcomes], key \in BOOLEAN,
             llm \in ExtractionOutcomes :
             ExtractionLlmRaises(fo, key, llm)
             => /\ pc' = "matches" /\ resp' = NoResp
                /\ Len(candidates') = Len(candidates) + 1]_vars

C13_Witness ==
    /\ pc = "done" /\ req.endpoint = "search"
    /\ calls # <<>> /\ calls[Len(calls)] = "index.query"
    /\ raised = Exception("query failed")
    /\ resp.status = 500 /\ resp.body = NoBody

\* C14: an ATS request that passed validation, had sufficient resume text
\* and whose scoring LLM call raised or answered text that does not parse
\* to an object with overall_score and category_scores ends with a 200
\* success body: the fallback (with its error) or the heuristic
\* reconstruction (with its parsing note), with success = true added.
C14_BestEffortIsSuccess ==
    (/\ pc = "done" /\ req.endpoint = "ats"
     /\ llm_out.kind \in {"raise", "text"}
     /\ (llm_out.kind = "raise" \/ ~SliceIsBothObject(llm_out.text)))
    => /\ resp.status = 200
       /\ resp.body # NoBody
       /\ resp.body["success"] = TRUE
       /\ "overall_score" \in DOMAIN resp.body
       /\ "category_scores" \in DOMAIN resp.body
       /\ "timestamp" \in DOMAIN resp.body
       /\ llm_out.kind = "raise" => resp.body["error"] = llm_out.error
       /\ llm_out.kind = "text" => "parsing_note" \in DOMAIN resp.body
       /\ ~Insufficient(resume_text)
       /\ raised = NoException

C14_Witness ==
    /\ pc = "done" /\ req.endpoint = "ats"
    /\ llm_out = LlmRaised("Connection error.")
    /\ resp.status = 200
    /\ resp.body["success"] = TRUE
    /\ resp.body["risk_level"] = "UNKNOWN"

\* the external calls that construct a client or an index handle
Constructors == {"Pinecone()", "OpenAI()", "Index()"}

\* the step constructs a client or an index handle
Constructs ==
    /\ Len(calls') > Len(calls)
    /\ \E i \in (Len(calls) + 1)..Len(calls') : calls'[i] \in Constructors

\* C15 as claimed: once the module-level handles are set (the index handle
\* of the search service and the client of the extractor), no step of a
\* later request constructs a client or an index handle, and the
\* initialisation step of a request that finds the index handle set makes
\* no call and leaves every handle as it is.
C15_HandlesInitialisedOnce ==
    [][/\ (_index # None /\ _extractor_client # None) => ~Constructs
       /\ (pc = "init" /\ _index # None)
             => (calls' = calls /\ UNCHANGED globals)]_vars

\* the leftmost url= parameter with a value starts at token i
ParamAt(toks, i) ==
    /\ toks[i] = "url=" /\ i < Len(toks) /\ toks[i + 1] # "&"
    /\ \A j \in 1..(i - 1) : toks[j] = "url=" => toks[j + 1] = "&"

\* the last token of the value that starts after token i
ParamEnd(toks, i) ==
    CHOOSE e \in (i + 1)..Len(toks) :
        /\ \A m \in (i + 1)..e : toks[m] # "&"
        /\ e = Len(toks) \/ toks[e + 1] = "&"

\* the URL-decoded value of the parameter that starts at token i
InnerUrl(toks, i) ==
    [m \in 1..(ParamEnd(toks, i) - i) |->
        CASE toks[i + m] = "%host" -> "host"
          [] toks[i + m] = "%url=" -> "url="
          [] OTHER                 -> toks[i + m]]

\* a plain link: no Google-Docs URL and no export format in it
DirectLink(toks) ==
    \A m \in 1..Len(toks) :
        toks[m] \notin {"gview", "gdoc", "fmt=pdf", "fmt=docx"}

C20_UnwrappingTerminates ==
    /\ [][depth' > depth => UrlLen(actual_url') < UrlLen(actual_url)]_vars
    /\ [](depth + UrlLen(actual_url) <= UrlLen(req.resume_url.toks))
    /\ <>(pc = "extracted")

C20_Witness ==
    /\ pc = "extracted"
    /\ req.resume_url.toks
         = <<"gview", "url=", "gview", "url=", "gview", "url=", "host",
             ".pdf">>
    /\ depth = 3
    /\ actual_url = <<"host", ".pdf">>
    /\ ret.fetched = <<Fetch("read_pdf_from_url", <<"host", ".pdf">>)>>

\* C17: extract_resume_info never raises; whatever the URL, the fetch, the
\* text extraction, the client initialisation, the LLM call and the JSON
\* parse do, it returns a map with exactly the seven keys, and when any
\* stage fails every one of the seven values is the empty string.
StageFailed ==
    \/ extract_text_from_url(req.resume_url, ret.fo).text.raw = 0
    \/ ret.client = None /\ ~ret.key
    \/ ret.llm.kind # "object"

C17_ExtractInfoTotal ==
    pc = "info_done" =>
        /\ ~ret.raised
        /\ DOMAIN ret.info
             = {"name", "email", "contact_number", "linkedin_url", "skills",
                "position", "total_experience"}
        /\ StageFailed => \A k \in DOMAIN ret.info : ret.info[k] = ""

C17_Witness ==
    /\ pc = "info_done"
    /\ req.resume_url = PdfUrl
    /\ ret.fo[1].ok /\ ret.fo[1].text.raw > 0
    /\ ret.client = None /\ ret.key
    /\ ret.llm = LlmBadJson
    /\ calls = <<"requests.get", "OpenAI()", "chat.completions.create">>
    /\ ret.info = EmptyInfo

\* C18: extract_skills returns, joined by ", ", exactly the entries of the
\* keyword list that occur in the text as substrings whatever the case of
\* the letters, in the order of the list and not of the text, and only the
\* first fifteen of them; for "Python, Docker, Kubernetes" it returns
\* "Python, Docker, Kubernetes".
LowerChar(c) ==
    IF \E i \in 1..26 : UpperCase[i] = c
    THEN LowerCase[CHOOSE i \in 1..26 : UpperCase[i] = c]
    ELSE c

lower(s) == [i \in 1..Len(s) |-> LowerChar(s[i])]

Occurs(word, text) ==
    \E i \in 0..(Len(text) - Len(word)) :
        \A j \in 1..Len(word) : text[i + j] = word[j]

OccursIgnoringCase(word, text) == Occurs(lower(word), lower(text))

SkillsInLowerCase == [n \in 1..Len(common_skills) |-> lower(common_skills[n])]

SkillsFound(text) ==
    LET t == lower(text)
    IN  {n \in 1..Len(common_skills) : Occurs(SkillsInLowerCase[n], t)}

FirstFifteen(S) == {n \in S : Cardinality({m \in S : m < n}) < 15}

RECURSIVE InListOrder(_)
InListOrder(S) ==
    IF S = {} THEN <<>>
    ELSE LET n == CHOOSE x \in S : \A y \in S : x <= y
         IN  IF S = {n} THEN common_skills[n]
             ELSE common_skills[n] \o <<",", " ">> \o InListOrder(S \ {n})

PythonDockerKubernetes ==
    <<"P", "y", "t", "h", "o", "n", ",", " ", "D", "o", "c", "k", "e", "r", ",", " ", "K", "u", "b", "e", "r", "n", "e", "t", "e", "s">>

C18_SkillsInListOrder ==
    pc = "skills_done" =>
        /\ ret.skills = InListOrder(FirstFifteen(SkillsFound(ret.text)))
        /\ ret.text = PythonDockerKubernetes
              => ret.skills = PythonDockerKubernetes

C18_Witness ==
    /\ pc = "skills_done"
    /\ Cardinality(SkillsFound(ret.text)) > 15
    /\ SubSeq(ret.text, 1, 10)
         = <<"k", "u", "b", "e", "r", "n", "e", "t", "e", "s">>
    /\ SubSeq(ret.skills, 1, 12)
         = <<"P", "y", "t", "h", "o", "n", ",", " ", "J", "a", "v", "a">>
    /\ OccursIgnoringCase(<<"S", "A", "S", "S">>, ret.text)
    /\ ~OccursIgnoringCase(<<"S", "A", "S", "S">>, ret.skills)

\* C19: within one ATS-score request the steps come in one order and each
\* at most once: validation, text extraction, construction of the scorer,
\* the scoring LLM call, the response.  No document is fetched unless
\* resume_url is non-empty and the job description has at least 10
\* characters; the scoring LLM call is made only after the extraction
\* returned at least 50 characters after trimming; a request answered 400
\* never reaches the LLM; the scoring LLM call is made at most once.
Count(log, c) == Cardinality({i \in 1..Len(log) : log[i] = c})

AtsStep(p) ==
    CASE p = "idle"        -> 0
      [] p = "ats_extract" -> 1
      [] p = "ats_scorer"  -> 2
      [] p = "ats_score"   -> 3
      [] p = "done"        -> 4
      [] OTHER             -> 5

AtsCallsInOrder ==
    \A i, j \in 1..Len(calls) :
        i < j => \/ calls[i] = "requests.get"
                 \/ calls[i] = "OpenAI()" /\ calls[j] = "responses.create"

C19_AtsStepsOrderedOnce ==
    /\ [](req.endpoint = "ats" =>
            /\ Count(calls, "requests.get") > 0
                 => /\ req.resume_url.kind \notin {"missing", "null"}
                    /\ req.resume_url.kind = "str" => req.resume_url.len > 0
                    /\ LongJD(req.job_description)
            /\ Count(calls, "responses.create") > 0
                 => /\ resume_text.stripped >= 50
                    /\ Count(calls, "requests.get") > 0
            /\ resp.status = 400 => Count(calls, "responses.create") = 0
            /\ Count(calls, "responses.create") <= 1
            /\ Count(calls, "OpenAI()") <= 1
            /\ AtsCallsInOrder)
    /\ [][req'.endpoint = "ats" /\ pc' # pc
            => AtsStep(pc) < AtsStep(pc') /\ AtsStep(pc') < 5]_vars

C19_Witness ==
    /\ pc = "done" /\ req.endpoint = "ats"
    /\ resp.status = 200
    /\ calls = <<"requests.get", "OpenAI()", "responses.create">>
    /\ resume_text.stripped = 50
    /\ req.job_description.len = 10

=============================================================================
